---------------------------- MODULE Spec2Model ----------------------------
(***************************************************************************)
(* A model of ukupacha/Utils.py: the JSON encoder hooks, the Oracle        *)
(* accessor (request, get_db_data, request_register), the row classifiers, *)
(* parse_table and replace_graph_db_field.                                 *)
(*                                                                         *)
(* Python strings are sequences of characters; a character is a TLA+       *)
(* string naming one code point.                                           *)
(***************************************************************************)
EXTENDS Integers, Sequences, FiniteSets, TLC

VARIABLES
    graph,       \* replace_graph_db_field: the document passed in first
    value_old,   \* replace_graph_db_field: value_old of the first call
    value_new,   \* replace_graph_db_field: value_new of the first call
    gres,        \* the document (or the exception) the last call produced
    gpc,         \* "input", "replaced" (one call made), "restored" (two)
    fields,      \* parse_table: the fields descriptor (its keys, in order)
    table_name,  \* parse_table: table_name of the last call
    data_row,    \* parse_table: data_row of the last call
    filters_function, \* parse_table: filters_function of the last call
    data,        \* parse_table: what the last call returned (or raised)
    cls,         \* <<is_dict, is_list, is_serie>> of data_row, once classified
    placed,      \* tables for which some call returned non-empty data
    calls,       \* parse_table calls made so far
    proc,        \* the process: "running", or "exited" once sys.exit(1) ran
    dbpc,        \* where the accessor is: "idle", "get_tables", "loop", "exited"
    op,          \* the operation called last: "get_db_data", "request_register"
    db,          \* its db argument
    reg_keys,    \* request_register: its keys argument (items in order)
    reg_table,   \* request_register: its table argument
    tables_names, \* get_db_data: the list get_tables returned
    tix,         \* get_db_data: index into tables_names of the next table
    dbdata,      \* get_db_data: the dict data built so far
    queries,     \* the queries the operation handed to the driver, with outcomes
    printed,     \* what print wrote
    ret,         \* what the operation returned to its caller, if it returned
    ops,         \* operations called so far
    o,           \* JsonEncoder.default / transform_python: the value passed
    emethod,     \* which of the two was called
    eres,        \* what it returned (or raised)
    epc          \* "input", "done"

graphVars == <<graph, value_old, value_new, gres, gpc>>
fillVars == <<fields, table_name, data_row, filters_function, data, cls, placed, calls>>
dbVars == <<proc, dbpc, op, db, reg_keys, reg_table, tables_names, tix, dbdata, queries,
            printed, ret, ops>>
encVars == <<o, emethod, eres, epc>>
vars == <<graphVars, fillVars, dbVars, encVars>>

-----------------------------------------------------------------------------
(* Characters *)

QUOTE == "\""
BSLASH == "\\"
\* One code point outside ASCII (U+00E9), which json.dumps escapes.
EACUTE == "U+00E9"

\* The six characters json.dumps writes for U+00E9 (ensure_ascii=True).
EscapedEAcute == <<BSLASH, "u", "0", "0", "e", "9">>

-----------------------------------------------------------------------------
(* Python values: a string, a dict (ordered items), a list, a tuple, or a  *)
(* raised exception.  A dict key is a str or an int (its decimal digits).  *)

Str(s) == [t |-> "str", s |-> s, items |-> <<>>]
Dict(items) == [t |-> "dict", s |-> <<>>, items |-> items]
List(items) == [t |-> "list", s |-> <<>>, items |-> items]
Tuple(items) == [t |-> "tuple", s |-> <<>>, items |-> items]
Raised(name) == [t |-> "raise", s |-> <<name>>, items |-> <<>>]
\* A record with labelled values (pandas.Series), an int (its digits), None,
\* and a mapping that is not of type dict (collections.OrderedDict).
Series(items) == [t |-> "Series", s |-> <<>>, items |-> items]
PyInt(digits) == [t |-> "int", s |-> digits, items |-> <<>>]
None == [t |-> "NoneType", s |-> <<>>, items |-> <<>>]
OrderedDict(items) == [t |-> "OrderedDict", s |-> <<>>, items |-> items]

KStr(s) == [kt |-> "str", ks |-> s]
KInt(digits) == [kt |-> "int", ks |-> digits]
Item(k, v) == [k |-> k, v |-> v]

-----------------------------------------------------------------------------
(* json.dumps, default options: ensure_ascii escaping, ", " and ": "       *)
(* separators, dict items in insertion order, int keys written as strings, *)
(* tuples written as arrays.                                               *)

EncodeChar(c) ==
    IF c = QUOTE THEN <<BSLASH, QUOTE>>
    ELSE IF c = BSLASH THEN <<BSLASH, BSLASH>>
    ELSE IF c = EACUTE THEN EscapedEAcute
    ELSE <<c>>

RECURSIVE EncodeChars(_)
EncodeChars(s) ==
    IF Len(s) = 0 THEN <<>> ELSE EncodeChar(Head(s)) \o EncodeChars(Tail(s))

EncodeString(s) == <<QUOTE>> \o EncodeChars(s) \o <<QUOTE>>

RECURSIVE Dumps(_)
RECURSIVE DumpItems(_)
RECURSIVE DumpElems(_)
Dumps(v) ==
    CASE v.t = "str" -> EncodeString(v.s)
      [] v.t = "dict" -> <<"{">> \o DumpItems(v.items) \o <<"}">>
      [] v.t \in {"list", "tuple"} -> <<"[">> \o DumpElems(v.items) \o <<"]">>

DumpItems(items) ==
    IF Len(items) = 0 THEN <<>>
    ELSE EncodeString(Head(items).k.ks) \o <<":", " ">> \o Dumps(Head(items).v)
         \o (IF Len(items) > 1 THEN <<",", " ">> ELSE <<>>)
         \o DumpItems(Tail(items))

DumpElems(items) ==
    IF Len(items) = 0 THEN <<>>
    ELSE Dumps(Head(items))
         \o (IF Len(items) > 1 THEN <<",", " ">> ELSE <<>>)
         \o DumpElems(Tail(items))

-----------------------------------------------------------------------------
(* str.replace(pat, rep): every non-overlapping occurrence, left to right. *)

IsPrefix(pat, s) == Len(pat) <= Len(s) /\ SubSeq(s, 1, Len(pat)) = pat

RECURSIVE StrReplace(_, _, _)
StrReplace(s, pat, rep) ==
    IF Len(s) < Len(pat) THEN s
    ELSE IF IsPrefix(pat, s)
         THEN rep \o StrReplace(SubSeq(s, Len(pat) + 1, Len(s)), pat, rep)
         ELSE <<Head(s)>> \o StrReplace(Tail(s), pat, rep)

RECURSIVE Occurs(_, _)
Occurs(pat, s) ==
    IF Len(s) < Len(pat) THEN FALSE
    ELSE IsPrefix(pat, s) \/ Occurs(pat, Tail(s))

-----------------------------------------------------------------------------
(* json.loads: a parse result is [ok, v, n], n the index after the value.  *)
(* \u escapes other than the one for U+00E9 cannot occur in a text built   *)
(* from the characters used here, and are rejected.                        *)

Fail == [ok |-> FALSE, v |-> Raised("JSONDecodeError"), n |-> 0]
Parsed(v, n) == [ok |-> TRUE, v |-> v, n |-> n]

RECURSIVE SkipWs(_, _)
SkipWs(s, i) == IF i <= Len(s) /\ s[i] = " " THEN SkipWs(s, i + 1) ELSE i

RECURSIVE ScanString(_, _, _)
ScanString(s, i, acc) ==
    IF i > Len(s) THEN Fail
    ELSE IF s[i] = QUOTE THEN Parsed(Str(acc), i + 1)
    ELSE IF s[i] = BSLASH THEN
        IF i + 1 > Len(s) THEN Fail
        ELSE IF s[i + 1] \in {QUOTE, BSLASH}
             THEN ScanString(s, i + 2, Append(acc, s[i + 1]))
        ELSE IF s[i + 1] = "u" /\ i + 5 <= Len(s)
                /\ SubSeq(s, i, i + 5) = EscapedEAcute
             THEN ScanString(s, i + 6, Append(acc, EACUTE))
        ELSE Fail
    ELSE ScanString(s, i + 1, Append(acc, s[i]))

\* dict(pairs): a repeated key keeps its first position and its last value.
RECURSIVE SetItem(_, _, _)
SetItem(items, k, v) ==
    IF Len(items) = 0 THEN <<Item(k, v)>>
    ELSE IF Head(items).k = k THEN <<Item(k, v)>> \o Tail(items)
    ELSE <<Head(items)>> \o SetItem(Tail(items), k, v)

RECURSIVE ParseValue(_, _)
RECURSIVE ParseMembers(_, _, _)
RECURSIVE ParseElements(_, _, _)

ParseObject(s, i) ==
    LET j == SkipWs(s, i)
    IN IF j <= Len(s) /\ s[j] = "}" THEN Parsed(Dict(<<>>), j + 1)
       ELSE ParseMembers(s, j, <<>>)

ParseArray(s, i) ==
    LET j == SkipWs(s, i)
    IN IF j <= Len(s) /\ s[j] = "]" THEN Parsed(List(<<>>), j + 1)
       ELSE ParseElements(s, j, <<>>)

ParseValue(s, i) ==
    IF i > Len(s) THEN Fail
    ELSE IF s[i] = QUOTE THEN ScanString(s, i + 1, <<>>)
    ELSE IF s[i] = "{" THEN ParseObject(s, i + 1)
    ELSE IF s[i] = "[" THEN ParseArray(s, i + 1)
    ELSE Fail

ParseMembers(s, i, acc) ==
    IF i > Len(s) \/ s[i] # QUOTE THEN Fail
    ELSE LET key == ScanString(s, i + 1, <<>>)
         IN IF ~key.ok THEN Fail
            ELSE LET c == SkipWs(s, key.n)
                 IN IF c > Len(s) \/ s[c] # ":" THEN Fail
                    ELSE LET val == ParseValue(s, SkipWs(s, c + 1))
                         IN IF ~val.ok THEN Fail
                            ELSE LET acc2 == SetItem(acc, KStr(key.v.s), val.v)
                                     e == SkipWs(s, val.n)
                                 IN IF e > Len(s) THEN Fail
                                    ELSE IF s[e] = "}"
                                         THEN Parsed(Dict(acc2), e + 1)
                                    ELSE IF s[e] = ","
                                         THEN ParseMembers(s, SkipWs(s, e + 1), acc2)
                                    ELSE Fail

ParseElements(s, i, acc) ==
    LET val == ParseValue(s, i)
    IN IF ~val.ok THEN Fail
       ELSE LET acc2 == Append(acc, val.v)
                e == SkipWs(s, val.n)
            IN IF e > Len(s) THEN Fail
               ELSE IF s[e] = "]" THEN Parsed(List(acc2), e + 1)
               ELSE IF s[e] = "," THEN ParseElements(s, SkipWs(s, e + 1), acc2)
               ELSE Fail

Loads(s) ==
    LET r == ParseValue(s, SkipWs(s, 1))
    IN IF ~r.ok THEN Raised("JSONDecodeError")
       ELSE IF SkipWs(s, r.n) = Len(s) + 1 THEN r.v
       ELSE Raised("JSONDecodeError")

-----------------------------------------------------------------------------
(* replace_graph_db_field *)

\* f'"DB": "{value}"'
DBField(value) == <<QUOTE, "D", "B", QUOTE, ":", " ", QUOTE>> \o value \o <<QUOTE>>

\* The replacement with the field name left out of the pattern: "<value>".
replace_graph_db_field_any(g, old, new) ==
    Loads(StrReplace(Dumps(g), <<QUOTE>> \o old \o <<QUOTE>>,
                     <<QUOTE>> \o new \o <<QUOTE>>))

replace_graph_db_field(g, old, new) ==
    Loads(StrReplace(Dumps(g), DBField(old), DBField(new)))

-----------------------------------------------------------------------------
(* Python's == on the values above: dicts compare as sets of items, lists  *)
(* and tuples element by element, values of different types are unequal.   *)

RECURSIVE PyEq(_, _)
Lookup(items, k) == {i \in 1..Len(items) : items[i].k = k}

PyEq(a, b) ==
    /\ a.t = b.t
    /\ CASE a.t = "str" -> a.s = b.s
         [] a.t = "raise" -> a.s = b.s
         [] a.t \in {"list", "tuple"} ->
                /\ Len(a.items) = Len(b.items)
                /\ \A i \in 1..Len(a.items) : PyEq(a.items[i], b.items[i])
         [] a.t = "dict" ->
                /\ Len(a.items) = Len(b.items)
                /\ \A i \in 1..Len(a.items) :
                       \E j \in Lookup(b.items, a.items[i].k) :
                           PyEq(a.items[i].v, b.items[j].v)

-----------------------------------------------------------------------------
(* The row classifiers *)

\* type(data).__name__
TypeName(v) == v.t

is_dict(v) == TypeName(v) = "dict"

is_list(v) == TypeName(v) = "list"

\* is_serie with the 'list' test left out.
is_serie_dict_only(v) == ~(TypeName(v) = "dict")

is_serie(v) == ~(TypeName(v) = "dict" \/ TypeName(v) = "list")

\* table_exists returning True from the first iteration, whatever the key.
table_exists_first(names, tbl) == Len(names) > 0

\* for i in list(fields.keys()): if table == i: return True
RECURSIVE table_exists(_, _)
table_exists(names, tbl) ==
    IF Len(names) = 0 THEN FALSE
    ELSE IF tbl = Head(names) THEN TRUE
    ELSE table_exists(Tail(names), tbl)

-----------------------------------------------------------------------------
(* parse_table *)

\* data_row.to_dict(): a Series gives the dict of its labelled values; the
\* other values here have no such attribute.
RECURSIVE ItemsToDict(_, _)
ItemsToDict(items, acc) ==
    IF Len(items) = 0 THEN acc
    ELSE ItemsToDict(Tail(items), SetItem(acc, Head(items).k, Head(items).v))

to_dict(v) ==
    IF TypeName(v) = "Series" THEN Dict(ItemsToDict(v.items, <<>>))
    ELSE Raised("AttributeError")

\* The filter functions a caller passes: "keep" returns the row, "clear" an
\* empty dict, "as_series" the dict's items as a Series (other rows as they
\* are).  "None" is no filter.
Filters == {"None", "keep", "clear", "as_series"}

ApplyFilter(f, tbl, row) ==
    CASE f = "keep" -> row
      [] f = "clear" -> Dict(<<>>)
      [] f = "as_series" -> IF TypeName(row) = "dict" THEN Series(row.items) ELSE row

\* parse_table that never calls the filter.
parse_table_unfiltered(flds, tbl, row, f) ==
    IF table_exists(flds, tbl)
    THEN IF is_dict(row) THEN row ELSE to_dict(row)
    ELSE Dict(<<>>)

parse_table(flds, tbl, row, f) ==
    IF table_exists(flds, tbl)
    THEN LET working == IF f # "None" THEN ApplyFilter(f, tbl, row) ELSE row
         IN IF is_dict(working) THEN working ELSE to_dict(working)
    ELSE Dict(<<>>)

\* Calls a caller makes while it builds one document.
MaxCalls == 2

Tables == {"EN_PRODUCTO", "EN_RED", "RE_AUTOR"}
FieldsDescriptors == {<<>>, <<"EN_PRODUCTO">>, <<"EN_RED", "EN_PRODUCTO">>}

ProductoItems == <<Item(KStr(<<"I", "D">>), PyInt(<<"1">>)),
                   Item(KStr(<<"N", "A", "M", "E">>), Str(<<"x">>))>>

Rows == {Dict(ProductoItems), Dict(<<>>), Series(ProductoItems), Series(<<>>),
         OrderedDict(ProductoItems), List(<<Str(<<"x">>)>>),
         Tuple(<<Str(<<"x">>)>>), PyInt(<<"1">>), Str(<<"x">>), None}

IdleFill ==
    /\ fields = <<>>
    /\ table_name = ""
    /\ data_row = None
    /\ filters_function = "None"
    /\ data = None
    /\ cls = <<>>
    /\ placed = {}
    /\ calls = 0

InitFill ==
    /\ fields \in FieldsDescriptors
    /\ table_name = ""
    /\ data_row = None
    /\ filters_function = "None"
    /\ data = None
    /\ cls = <<>>
    /\ placed = {}
    /\ calls = 0

NonEmpty(v) == v.t = "dict" /\ Len(v.items) > 0

\* data = parse_table(fields, table, row, f); an exception is the caller's
\* to handle, and the caller goes on.
ParseTable ==
    /\ calls < MaxCalls
    /\ \E tbl \in Tables, row \in Rows, f \in Filters :
          /\ table_name' = tbl
          /\ data_row' = row
          /\ filters_function' = f
          /\ data' = parse_table(fields, tbl, row, f)
          /\ placed' = IF NonEmpty(parse_table(fields, tbl, row, f))
                       THEN placed \cup {tbl} ELSE placed
    /\ cls' = <<>>
    /\ calls' = calls + 1
    /\ UNCHANGED <<fields, graphVars, dbVars, encVars>>

\* is_dict(data_row), is_list(data_row), is_serie(data_row)
Classify ==
    /\ calls > 0
    /\ cls = <<>>
    /\ cls' = <<is_dict(data_row), is_list(data_row), is_serie(data_row)>>
    /\ UNCHANGED <<fields, table_name, data_row, filters_function, data,
                   placed, calls, graphVars, dbVars, encVars>>

NextFill == ParseTable \/ Classify

-----------------------------------------------------------------------------
(* Utils.request, get_tables, get_db_data, request_register *)

\* What pd.read_sql does with a query: it returns a DataFrame, or the driver
\* raises a cx_Oracle.Error (DatabaseError: connection lost, malformed SQL,
\* permission denied; InterfaceError).
DriverOutcomes == {"ok", "DatabaseError", "InterfaceError"}

DataFrame(query) == [t |-> "DataFrame", q |-> query]
NoFrame == [t |-> "none", q |-> <<>>]

\* request that prints the error and goes on instead of exiting.
request_no_exit(query, outcome) ==
    [exit |-> FALSE, df |-> DataFrame(query),
     out |-> IF outcome = "ok" THEN <<>> ELSE <<outcome>>]

\* try: df = pd.read_sql(query, con=self.connection)
\* except cx_Oracle.Error as error: print(error); sys.exit(1)
\* return df
request(query, outcome) ==
    IF outcome = "ok"
    THEN [exit |-> FALSE, df |-> DataFrame(query), out |-> <<>>]
    ELSE [exit |-> TRUE, df |-> NoFrame, out |-> <<outcome>>]

SELECT_FROM == <<"S", "E", "L", "E", "C", "T", " ", "*", " ", "F", "R", "O", "M", " ">>
WHERE == <<"W", "H", "E", "R", "E">>
AND == <<"A", "N", "D">>

\* f"SELECT * FROM all_tables WHERE OWNER='{db}'"
TablesQuery(owner) ==
    SELECT_FROM \o <<"a", "l", "l", "_", "t", "a", "b", "l", "e", "s", " ">>
    \o WHERE \o <<" ", "O", "W", "N", "E", "R", "=", "'">> \o owner \o <<"'">>

\* f"SELECT * FROM {db}.{table}"
RowsQuery(owner, tbl) == SELECT_FROM \o owner \o <<".">> \o tbl

\* for key in keys: query += f" {key}='{keys[key]}' AND"
RECURSIVE AppendTerms(_, _)
AppendTerms(query, items) ==
    IF Len(items) = 0 THEN query
    ELSE AppendTerms(query \o <<" ">> \o Head(items).k \o <<"=", "'">>
                         \o Head(items).v \o <<"'", " ">> \o AND,
                     Tail(items))

\* query[0:-3]
DropLast3(query) == SubSeq(query, 1, Len(query) - 3)

\* query = f"SELECT * FROM {db}.{table} WHERE "; the loop; query = query[0:-3]
RegisterQuery(owner, ks, tbl) ==
    DropLast3(AppendTerms(SELECT_FROM \o owner \o <<".">> \o tbl \o <<" ">>
                              \o WHERE \o <<" ">>, ks))

\* Operations a caller makes in one run.
MaxOps == 2
\* Entries of a keys mapping.
MaxKeys == 2
\* Tables an owner has.
MaxTables == 2

Owners == {<<"U">>}
TableNames == <<(<<"P">>), (<<"R">>), (<<"A">>)>>
Columns == <<(<<"I", "D">>), (<<"C", "O", "D">>), (<<"N">>)>>
ColumnValues == {<<"1">>, <<"x">>}

\* The lists of at most n of the names[i..], in order.
RECURSIVE ListsFrom(_, _, _)
ListsFrom(names, i, n) ==
    IF n = 0 \/ i > Len(names) THEN {<<>>}
    ELSE ListsFrom(names, i + 1, n)
         \cup {<<names[i]>> \o rest : rest \in ListsFrom(names, i + 1, n - 1)}

\* The keys mappings of at most n of the Columns[i..].
RECURSIVE KeyMaps(_, _)
KeyMaps(i, n) ==
    IF n = 0 \/ i > Len(Columns) THEN {<<>>}
    ELSE KeyMaps(i + 1, n)
         \cup {<<Item(Columns[i], v)>> \o rest :
                  v \in ColumnValues, rest \in KeyMaps(i + 1, n - 1)}

NoReturn == [set |-> FALSE, v |-> <<>>]
Returned(v) == [set |-> TRUE, v |-> v]

IdleDb ==
    /\ proc = "running"
    /\ dbpc = "idle"
    /\ op = "none"
    /\ db = <<>>
    /\ reg_keys = <<>>
    /\ reg_table = <<>>
    /\ tables_names = <<>>
    /\ tix = 1
    /\ dbdata = <<>>
    /\ queries = <<>>
    /\ printed = <<>>
    /\ ret = NoReturn
    /\ ops = 0

\* One self.request(query): the query goes to the driver once; on an error
\* the process prints it and exits, otherwise the caller goes on with df.
Issue(query, outcome) ==
    /\ queries' = Append(queries, [q |-> query, outcome |-> outcome])
    /\ printed' = printed \o request(query, outcome).out
    /\ proc' = IF request(query, outcome).exit THEN "exited" ELSE proc

\* get_db_data(db): data = {}
CallGetDbData ==
    /\ proc = "running" /\ dbpc = "idle" /\ ops < MaxOps
    /\ db' \in Owners
    /\ op' = "get_db_data"
    /\ dbdata' = <<>>
    /\ tables_names' = <<>>
    /\ tix' = 1
    /\ queries' = <<>>
    /\ ret' = NoReturn
    /\ ops' = ops + 1
    /\ dbpc' = "get_tables"
    /\ UNCHANGED <<proc, reg_keys, reg_table, printed, graphVars, fillVars, encVars>>

\* tables_names = self.get_tables(db)
GetTables ==
    /\ proc = "running" /\ dbpc = "get_tables"
    /\ \E outcome \in DriverOutcomes, names \in ListsFrom(TableNames, 1, MaxTables) :
          /\ Issue(TablesQuery(db), outcome)
          /\ IF request(TablesQuery(db), outcome).exit
             THEN dbpc' = "exited" /\ UNCHANGED tables_names
             ELSE dbpc' = "loop" /\ tables_names' = names
    /\ UNCHANGED <<op, db, reg_keys, reg_table, tix, dbdata, ret, ops,
                   graphVars, fillVars, encVars>>

\* for table in tables_names: data[table] = self.request(query)
LoopRequest ==
    /\ proc = "running" /\ dbpc = "loop" /\ tix <= Len(tables_names)
    /\ \E outcome \in DriverOutcomes :
          LET query == RowsQuery(db, tables_names[tix])
          IN /\ Issue(query, outcome)
             /\ IF request(query, outcome).exit
                THEN dbpc' = "exited" /\ UNCHANGED <<dbdata, tix>>
                ELSE /\ dbdata' = SetItem(dbdata, tables_names[tix],
                                          request(query, outcome).df)
                     /\ tix' = tix + 1
                     /\ dbpc' = "loop"
    /\ UNCHANGED <<op, db, reg_keys, reg_table, tables_names, ret, ops,
                   graphVars, fillVars, encVars>>

\* return data
ReturnData ==
    /\ proc = "running" /\ dbpc = "loop" /\ tix > Len(tables_names)
    /\ ret' = Returned(dbdata)
    /\ dbpc' = "idle"
    /\ UNCHANGED <<proc, op, db, reg_keys, reg_table, tables_names, tix, dbdata, queries,
                   printed, ops, graphVars, fillVars, encVars>>

\* request_register(db, keys, table)
RequestRegister ==
    /\ proc = "running" /\ dbpc = "idle" /\ ops < MaxOps
    /\ \E owner \in Owners, ks \in KeyMaps(1, MaxKeys),
          tbl \in {TableNames[i] : i \in 1..Len(TableNames)},
          outcome \in DriverOutcomes :
          LET query == RegisterQuery(owner, ks, tbl)
          IN /\ db' = owner /\ reg_keys' = ks /\ reg_table' = tbl
             /\ queries' = <<[q |-> query, outcome |-> outcome]>>
             /\ printed' = printed \o request(query, outcome).out
             /\ IF request(query, outcome).exit
                THEN proc' = "exited" /\ dbpc' = "exited" /\ ret' = NoReturn
                ELSE /\ proc' = proc /\ dbpc' = "idle"
                     /\ ret' = Returned(request(query, outcome).df)
    /\ op' = "request_register"
    /\ ops' = ops + 1
    /\ UNCHANGED <<tables_names, tix, dbdata, graphVars, fillVars, encVars>>

NextDb == CallGetDbData \/ GetTables \/ LoopRequest \/ ReturnData \/ RequestRegister

-----------------------------------------------------------------------------
(* JsonEncoder.default and OracleLOBCodec.transform_python *)

\* Units of a large object's content.
MaxLob == 2

LobUnits == {"a", "b"}

Digits == <<"0", "1", "2", "3", "4", "5", "6", "7", "8", "9">>
Digit(n) == Digits[n + 1]
Digits2(n) == <<Digit(n \div 10), Digit(n % 10)>>
Digits4(n) == Digits2(n \div 100) \o Digits2(n % 100)

\* The value passed: its class, its date (Timestamp, datetime), the outcome
\* of rendering it ("ok", or the exception raised), a large object's kind,
\* content and the number of units read() returns, a Series' items.
Value(c, y, m, d, fmt, lob, content, got, items) ==
    [cls |-> c, y |-> y, m |-> m, d |-> d, fmt |-> fmt,
     lob |-> lob, content |-> content, got |-> got, items |-> items]

Dated(c) == {Value(c, y, m, d, fmt, "", <<>>, 0, <<>>) :
                y \in {1999, 2020}, m \in {1, 12}, d \in {2, 31},
                fmt \in {"ok", "ValueError"}}

Contents == UNION {[1..n -> LobUnits] : n \in 0..MaxLob}

Lobs == {Value("LOB", 0, 0, 0, "ok", kind, c, got, <<>>) :
            kind \in {"CLOB", "BLOB"}, c \in Contents, got \in 0..MaxLob}

Plainly(c, items) == Value(c, 0, 0, 0, "ok", "", <<>>, 0, items)

Values ==
    Dated("Timestamp") \cup Dated("datetime")
    \cup {v \in Lobs : v.got <= Len(v.content)}
    \cup {Plainly("NaTType", <<>>), Plainly("ObjectId", <<>>), Plainly("set", <<>>),
          Plainly("Series", <<>>), Plainly("Series", ProductoItems)}

\* isinstance(v, c): pd.Timestamp and the type of pd.NaT derive from
\* datetime.datetime.
IsInstance(v, c) ==
    \/ v.cls = c
    \/ v.cls \in {"Timestamp", "NaTType"} /\ c = "datetime"

\* str(o) of a pd.Timestamp at midnight: "YYYY-MM-DD 00:00:00"
TimestampStr(v) ==
    Digits4(v.y) \o <<"-">> \o Digits2(v.m) \o <<"-">> \o Digits2(v.d)
    \o <<" ", "0", "0", ":", "0", "0", ":", "0", "0">>

\* datetime.datetime.strftime(o, format='%Y%m%d')
Strftime(v) == Digits4(v.y) \o Digits2(v.m) \o Digits2(v.d)

\* str(o) of an ObjectId: its 24 hexadecimal digits (one stands for them).
ObjectIdStr(v) == <<"5", "f">>

\* LOB.read(): a str for a CLOB, bytes for a BLOB.
Read(v) ==
    [t |-> IF v.lob = "CLOB" THEN "str" ELSE "bytes", s |-> SubSeq(v.content, 1, v.got)]

\* ''.join(x): the items of a str are strs, those of bytes are ints, and join
\* takes only strs.
RECURSIVE Join(_, _)
Join(x, acc) ==
    IF Len(x.s) = 0 THEN Str(acc)
    ELSE IF x.t # "str" THEN Raised("TypeError")
    ELSE Join([t |-> x.t, s |-> Tail(x.s)], Append(acc, Head(x.s)))

default(v) ==
    IF IsInstance(v, "Timestamp")
    THEN IF v.fmt = "ok" THEN Str(TimestampStr(v)) ELSE Raised(v.fmt)
    ELSE IF IsInstance(v, "NaTType") THEN None
    ELSE IF IsInstance(v, "LOB") THEN Join(Read(v), <<>>)
    ELSE IF IsInstance(v, "datetime")
    THEN IF v.fmt = "ok" THEN Str(Strftime(v))
         ELSE IF v.fmt = "ValueError" THEN None
         ELSE Raised(v.fmt)
    ELSE IF IsInstance(v, "Series") THEN to_dict(Series(v.items))
    ELSE IF IsInstance(v, "ObjectId") THEN Str(ObjectIdStr(v))
    ELSE Raised("TypeError")

transform_python(v) == Join(Read(v), <<>>)

IdleEnc ==
    /\ o = Plainly("set", <<>>)
    /\ emethod = "none"
    /\ eres = None
    /\ epc = "idle"

InitEnc ==
    /\ o \in Values
    /\ emethod = "none"
    /\ eres = None
    /\ epc = "input"

\* json.dumps(..., cls=JsonEncoder) meets o and calls default(o)
Default ==
    /\ epc = "input"
    /\ eres' = default(o)
    /\ emethod' = "default"
    /\ epc' = "done"
    /\ UNCHANGED <<o, graphVars, fillVars, dbVars>>

\* the BSON encoder meets a cx_Oracle.LOB and calls transform_python(o)
TransformPython ==
    /\ epc = "input"
    /\ o.cls = "LOB"
    /\ eres' = transform_python(o)
    /\ emethod' = "transform_python"
    /\ epc' = "done"
    /\ UNCHANGED <<o, graphVars, fillVars, dbVars>>

NextEnc == Default \/ TransformPython

-----------------------------------------------------------------------------
(* The documents replace_graph_db_field is applied to.                     *)

\* Fields of the top-level document.
MaxFields == 2

DBKey == KStr(<<"D", "B">>)

\* Field names, in the order a document inserts them: "DB", "k", 'a"DB'
\* and the int 1.
GraphKeys == <<DBKey, KStr(<<"k">>), KStr(<<"a", QUOTE, "D", "B">>), KInt(<<"1">>)>>

GraphStrings == {Str(<<"o">>), Str(<<"w">>), Str(<<"o", "s">>), Str(<<EACUTE>>)}

\* The item sequences over keys GraphKeys[i..], at most n fields, values in V.
RECURSIVE DictsFrom(_, _, _)
DictsFrom(i, n, V) ==
    IF n = 0 \/ i > Len(GraphKeys) THEN {<<>>}
    ELSE DictsFrom(i + 1, n, V)
         \cup {<<Item(GraphKeys[i], v)>> \o rest :
                  v \in V, rest \in DictsFrom(i + 1, n - 1, V)}

GraphValues ==
    GraphStrings
    \cup {List(<<Dict(<<Item(DBKey, Str(<<"o">>))>>)>>), Tuple(<<Str(<<"w">>)>>)}
    \cup {Dict(items) : items \in DictsFrom(1, 1, {Str(<<"o">>), Str(<<"w">>)})}

Graphs == {Dict(items) : items \in DictsFrom(1, MaxFields, GraphValues)}

OldValues == {<<"o">>, <<EACUTE>>}
NewValues == {<<"w">>, <<EACUTE>>, <<"w", QUOTE>>}

IdleGraph ==
    /\ graph = Dict(<<>>)
    /\ value_old = <<>>
    /\ value_new = <<>>
    /\ gres = Dict(<<>>)
    /\ gpc = "idle"

InitGraph ==
    /\ graph \in Graphs
    /\ value_old \in OldValues
    /\ value_new \in NewValues
    /\ gres = graph
    /\ gpc = "input"

\* graph = replace_graph_db_field(graph, value_old, value_new)
Replace ==
    /\ gpc = "input"
    /\ gres' = replace_graph_db_field(graph, value_old, value_new)
    /\ gpc' = "replaced"
    /\ UNCHANGED <<graph, value_old, value_new, fillVars, dbVars, encVars>>

\* ... followed by replace_graph_db_field(result, value_new, value_old)
Restore ==
    /\ gpc = "replaced"
    /\ gres.t # "raise"
    /\ gres' = replace_graph_db_field(gres, value_new, value_old)
    /\ gpc' = "restored"
    /\ UNCHANGED <<graph, value_old, value_new, fillVars, dbVars, encVars>>

NextGraph == Replace \/ Restore

-----------------------------------------------------------------------------
(* Properties of replace_graph_db_field *)

\* A document JSON represents as it is: str keys, no tuples.
RECURSIVE JsonNative(_)
JsonNative(v) ==
    CASE v.t = "str" -> TRUE
      [] v.t = "list" -> \A i \in 1..Len(v.items) : JsonNative(v.items[i])
      [] v.t = "dict" -> \A i \in 1..Len(v.items) :
                            v.items[i].k.kt = "str" /\ JsonNative(v.items[i].v)
      [] OTHER -> FALSE

\* A string json.dumps writes character for character.
Plain(s) == \A i \in 1..Len(s) : s[i] \notin {QUOTE, BSLASH, EACUTE}

\* The structural rewrite: every field named "DB" whose value is the string
\* old becomes new, at any depth; nothing else changes.
RECURSIVE Rewrite(_, _, _)
Rewrite(v, old, new) ==
    CASE v.t = "dict" ->
            Dict([i \in 1..Len(v.items) |->
                    IF v.items[i].k = DBKey /\ v.items[i].v = Str(old)
                    THEN Item(DBKey, Str(new))
                    ELSE Item(v.items[i].k, Rewrite(v.items[i].v, old, new))])
      [] v.t = "list" ->
            List([i \in 1..Len(v.items) |-> Rewrite(v.items[i], old, new)])
      [] v.t = "tuple" ->
            Tuple([i \in 1..Len(v.items) |-> Rewrite(v.items[i], old, new)])
      [] OTHER -> v

\* No field name, at any depth, ends with a quote followed by DB.
RECURSIVE NoQuoteDBName(_)
NoQuoteDBName(v) ==
    CASE v.t = "dict" ->
            \A i \in 1..Len(v.items) :
                LET name == v.items[i].k.ks
                IN /\ ~(Len(name) >= 3
                        /\ SubSeq(name, Len(name) - 2, Len(name)) = <<QUOTE, "D", "B">>)
                   /\ NoQuoteDBName(v.items[i].v)
      [] v.t \in {"list", "tuple"} ->
            \A i \in 1..Len(v.items) : NoQuoteDBName(v.items[i])
      [] OTHER -> TRUE

\* C3 as stated: on a JSON document, replace_graph_db_field rewrites exactly
\* the fields named "DB" whose value is value_old, at any depth, and leaves
\* every other field as it was.
C3_ExactlyDBFields ==
    (gpc = "replaced" /\ JsonNative(graph))
        => PyEq(gres, Rewrite(graph, value_old, value_new))

\* C3 amended: the same, when value_old and value_new are written character
\* for character by the serializer and no field name ends with a quote
\* followed by DB.
C3_ExactlyDBFieldsPlain ==
    (/\ gpc = "replaced"
     /\ JsonNative(graph) /\ NoQuoteDBName(graph)
     /\ Plain(value_old) /\ Plain(value_new))
        => PyEq(gres, Rewrite(graph, value_old, value_new))

\* C3 witness: {"DB": "o", "k": "os"} with old "o" and new "w" becomes
\* {"DB": "w", "k": "os"}.
C3_Witness ==
    /\ gpc = "replaced"
    /\ value_old = <<"o">> /\ value_new = <<"w">>
    /\ graph = Dict(<<Item(DBKey, Str(<<"o">>)),
                      Item(KStr(<<"k">>), Str(<<"o", "s">>))>>)
    /\ gres = Dict(<<Item(DBKey, Str(<<"w">>)),
                     Item(KStr(<<"k">>), Str(<<"o", "s">>))>>)

\* C4 as stated: replacing old by new and then new by old gives the document
\* back (JSON documents, old and new written character for character).
C4_RoundTrip ==
    (gpc = "restored" /\ JsonNative(graph) /\ Plain(value_old) /\ Plain(value_new))
        => PyEq(gres, graph)

\* C4 amended: the round trip gives the document back when, in addition, the
\* text "DB": "<new>" does not occur in the serialized document.
C4_RoundTripAmended ==
    (/\ gpc = "restored"
     /\ JsonNative(graph) /\ Plain(value_old) /\ Plain(value_new)
     /\ ~Occurs(DBField(value_new), Dumps(graph)))
        => PyEq(gres, graph)

\* C4 witness: a round trip whose first call did rewrite a field.
C4_Witness ==
    /\ gpc = "restored"
    /\ JsonNative(graph) /\ Plain(value_old) /\ Plain(value_new)
    /\ ~Occurs(DBField(value_new), Dumps(graph))
    /\ Occurs(DBField(value_old), Dumps(graph))
    /\ PyEq(gres, graph)

\* C5 as stated: with no "DB": "<old>" in the serialized document, the result
\* equals the input, for every document json.dumps accepts.
C5_MissUnchanged ==
    (gpc = "replaced" /\ ~Occurs(DBField(value_old), Dumps(graph)))
        => PyEq(gres, graph)

\* C5 amended: with no "DB": "<old>" in the serialized document, the result
\* equals the input, for every JSON document (str keys, no tuples).
C5_MissUnchangedJson ==
    (/\ gpc = "replaced"
     /\ JsonNative(graph)
     /\ ~Occurs(DBField(value_old), Dumps(graph)))
        => PyEq(gres, graph)

\* C5 witness: a miss on a document whose "DB" field already holds the new
\* value, beside a field that needs escaping.
C5_Witness ==
    /\ gpc = "replaced"
    /\ JsonNative(graph)
    /\ ~Occurs(DBField(value_old), Dumps(graph))
    /\ Occurs(DBField(value_new), Dumps(graph))
    /\ \E i \in 1..Len(graph.items) : ~Plain(graph.items[i].k.ks)
    /\ PyEq(gres, graph)

-----------------------------------------------------------------------------
(* Properties of parse_table and the classifiers *)

InDescriptor(tbl) == \E i \in 1..Len(fields) : fields[i] = tbl

\* C1: a call whose table_name is not a key of fields returns {}, whatever
\* the row and the filter; so non-empty data is only ever produced for tables
\* of the descriptor.
C1_UnknownTableEmpty ==
    /\ (calls > 0 /\ ~InDescriptor(table_name)) => data = Dict(<<>>)
    /\ \A tbl \in placed : InDescriptor(tbl)

\* C1 witness: after data was placed for a known table, a call for an unknown
\* table with a list row and a filter returned {}.
C1_Witness ==
    /\ calls > 1
    /\ placed # {}
    /\ ~InDescriptor(table_name)
    /\ data_row.t = "list"
    /\ filters_function # "None"
    /\ data = Dict(<<>>)

\* The row a call works on: the filter's result when a filter is supplied.
WorkingRow ==
    IF filters_function = "None" THEN data_row
    ELSE ApplyFilter(filters_function, table_name, data_row)

\* C2: for a table of the descriptor, parse_table returns the working row
\* itself when it is a dict, and otherwise what its to_dict gives (a Series:
\* the dict of its items; a value without to_dict: AttributeError); a dict
\* passed without a filter comes back unchanged.
C2_KnownTableRow ==
    (calls > 0 /\ InDescriptor(table_name)) =>
        /\ WorkingRow.t = "dict" => data = WorkingRow
        /\ WorkingRow.t = "Series" =>
               data.t = "dict" /\ data.items = WorkingRow.items
        /\ WorkingRow.t \notin {"dict", "Series"} => data = Raised("AttributeError")
        /\ (filters_function = "None" /\ data_row.t = "dict") => data = data_row

\* C2 witness: a dict row that the filter turned into a record came back as
\* the dict of the record's items.
C2_Witness ==
    /\ calls > 0
    /\ InDescriptor(table_name)
    /\ filters_function = "as_series"
    /\ data_row = Dict(ProductoItems)
    /\ data = Dict(ProductoItems)

\* C6: exactly one of is_dict, is_list, is_serie holds of a value, and
\* is_serie holds exactly when neither is_dict nor is_list does.
C6_Partition ==
    cls # <<>> =>
        /\ Cardinality({i \in 1..3 : cls[i]}) = 1
        /\ cls[3] <=> ~(cls[1] \/ cls[2])

\* C6 witness: a list was classified, and is a list only.
C6_Witness == cls = <<FALSE, TRUE, FALSE>> /\ data_row.t = "list"

-----------------------------------------------------------------------------
(* Properties of the accessor *)

Failed(i) == queries[i].outcome # "ok"

\* C7: a driver error ends the process at the failing query: it is the last
\* query issued, no query is issued twice, the error is printed, nothing is
\* returned; and what get_db_data returns holds every table of the list.
C7_FailFast ==
    /\ \A i \in 1..Len(queries) :
          Failed(i) => i = Len(queries) /\ proc = "exited" /\ ~ret.set
    /\ \A i, j \in 1..Len(queries) : i # j => queries[i].q # queries[j].q
    /\ proc = "exited" =>
          /\ Len(queries) > 0 /\ Failed(Len(queries))
          /\ printed = <<queries[Len(queries)].outcome>>
          /\ dbpc = "exited"
          /\ ~ret.set
    /\ (op = "get_db_data" /\ ret.set) =>
          /\ Len(ret.v) = Len(tables_names)
          /\ \A i \in 1..Len(tables_names) :
                ret.v[i] = Item(tables_names[i],
                                DataFrame(RowsQuery(db, tables_names[i])))

\* C7 witness: get_db_data fetched the first of two tables, and the query
\* for the second failed.
C7_Witness ==
    /\ op = "get_db_data"
    /\ Len(tables_names) = 2
    /\ Len(dbdata) = 1
    /\ Len(queries) = 3
    /\ Failed(3)
    /\ proc = "exited"
    /\ ~ret.set

\* str.split(): the words of a text, separated by spaces.
RECURSIVE SplitWords(_, _, _)
SplitWords(s, word, acc) ==
    IF Len(s) = 0 THEN (IF Len(word) = 0 THEN acc ELSE Append(acc, word))
    ELSE IF Head(s) = " "
         THEN SplitWords(Tail(s), <<>>, IF Len(word) = 0 THEN acc ELSE Append(acc, word))
         ELSE SplitWords(Tail(s), Append(word, Head(s)), acc)

\* key='value' for each item, with AND between two of them.
RECURSIVE Conjunction(_)
Conjunction(items) ==
    IF Len(items) = 0 THEN <<>>
    ELSE <<Head(items).k \o <<"=", "'">> \o Head(items).v \o <<"'">>>>
         \o (IF Len(items) > 1 THEN <<AND>> ELSE <<>>)
         \o Conjunction(Tail(items))

\* C10: request_register executes one query, whose words are SELECT * FROM
\* db.table WHERE and then one term key='value' per key, AND between terms.
C10_ConjunctiveQuery ==
    op = "request_register" =>
        /\ Len(queries) = 1
        /\ SplitWords(queries[1].q, <<>>, <<>>)
              = SplitWords(SELECT_FROM \o db \o <<".">> \o reg_table, <<>>, <<>>)
                \o <<WHERE>> \o Conjunction(reg_keys)

-----------------------------------------------------------------------------
(* Properties of the encoder *)

\* C8: a Timestamp or a datetime whose rendering fails gives None, and so
\* does NaT; default does not raise.
C8_FormatFailureNull ==
    (epc = "done" /\ emethod = "default") =>
        /\ (o.cls \in {"Timestamp", "datetime"} /\ o.fmt # "ok") => eres = None
        /\ o.cls = "NaTType" => eres = None

\* C9: a large object, character or binary, whose content read() returns in
\* full gives the string of that content.
C9_LobConcatenated ==
    (epc = "done" /\ o.cls = "LOB" /\ o.got = Len(o.content))
        => eres = Str(o.content)

-----------------------------------------------------------------------------
(* Specifications *)

FillInit == InitFill /\ IdleGraph /\ IdleDb /\ IdleEnc

SpecFill == FillInit /\ [][NextFill]_vars

GraphInit == InitGraph /\ IdleFill /\ IdleDb /\ IdleEnc

SpecGraph == GraphInit /\ [][NextGraph]_vars

DbInit == IdleDb /\ IdleGraph /\ IdleFill /\ IdleEnc

SpecDb == DbInit /\ [][NextDb]_vars

EncInit == InitEnc /\ IdleGraph /\ IdleFill /\ IdleDb

SpecEncoder == EncInit /\ [][NextEnc]_vars

=============================================================================
